---------------------------- MODULE Spec2Model ----------------------------
(***************************************************************************)
(* Model of mcp_atlassian/models/jira/adf.py: the conversion of an         *)
(* Atlassian Document Format tree to text (adf_to_text), its mark applier  *)
(* (_apply_marks) and its sibling merger (_process_content_list).          *)
(*                                                                         *)
(* Python values are tagged tuples:                                        *)
(*   <<"none">>            None                                            *)
(*   <<"str", s>>          a str, s the sequence of its characters         *)
(*   <<"int", neg, ds>>    an int of any size: sign and decimal digits     *)
(*   <<"list", xs>>        a list                                          *)
(*   <<"dict", m>>         a dict with string keys, m a function on them   *)
(*   <<"bool", b>>         a bool (only as a result of _has_code_mark)      *)
(*   <<"raise", e>>        not a value: the call raised exception e        *)
(***************************************************************************)
EXTENDS Integers, Sequences, FiniteSets, TLC

VARIABLES adf_content, given, pc, idx, result_parts, code_buffer, ret, history

vars == <<adf_content, given, pc, idx, result_parts, code_buffer, ret, history>>

---------------------------------------------------------------------------
(* Python values *)

None == <<"none">>
S(s) == <<"str", s>>
I(neg, ds) == <<"int", neg, ds>>
L(xs) == <<"list", xs>>
D(m) == <<"dict", m>>
B(b) == <<"bool", b>>
Raise(e) == <<"raise", e>>

IsNone(v) == v[1] = "none"
IsStr(v) == v[1] = "str"
IsInt(v) == v[1] = "int"
IsList(v) == v[1] = "list"
IsDict(v) == v[1] = "dict"
IsRaise(v) == v[1] = "raise"

(* bool(v): the truth value that an if statement and the or operator test. *)
Truthy(v) ==
    CASE IsNone(v) -> FALSE
      [] IsStr(v) -> v[2] # <<>>
      [] IsInt(v) -> v[3] # <<0>>
      [] IsList(v) -> v[2] # <<>>
      [] IsDict(v) -> DOMAIN v[2] # {}
      [] v[1] = "bool" -> v[2]

(* d.get(k, default); on anything but a dict the attribute lookup fails. *)
Get(d, k, default) ==
    IF ~IsDict(d) THEN Raise("AttributeError")
    ELSE IF k \in DOMAIN d[2] THEN d[2][k] ELSE default

(* String literals of the source, as character sequences. *)
(* The backquote character is written as the atom "BQ": the TLA+ lexer does *)
(* not admit the character itself in a string.                             *)
NL == "\n"
BT == "BQ"
Lit_text == <<"t", "e", "x", "t">>
Lit_hardBreak == <<"h", "a", "r", "d", "B", "r", "e", "a", "k">>
Lit_mention == <<"m", "e", "n", "t", "i", "o", "n">>
Lit_emoji == <<"e", "m", "o", "j", "i">>
Lit_date == <<"d", "a", "t", "e">>
Lit_status == <<"s", "t", "a", "t", "u", "s">>
Lit_inlineCard == <<"i", "n", "l", "i", "n", "e", "C", "a", "r", "d">>
Lit_codeBlock == <<"c", "o", "d", "e", "B", "l", "o", "c", "k">>
Lit_code == <<"c", "o", "d", "e">>
Lit_strong == <<"s", "t", "r", "o", "n", "g">>
Lit_em == <<"e", "m">>
Lit_strike == <<"s", "t", "r", "i", "k", "e">>
Lit_underline == <<"u", "n", "d", "e", "r", "l", "i", "n", "e">>
Lit_link == <<"l", "i", "n", "k">>
Lit_subsup == <<"s", "u", "b", "s", "u", "p">>
Lit_sub == <<"s", "u", "b">>
Lit_sup == <<"s", "u", "p">>
Lit_unknown == <<"u", "n", "k", "n", "o", "w", "n">>
Lit_NoneRepr == <<"N", "o", "n", "e">>
Fence == <<BT, BT, BT>>

---------------------------------------------------------------------------
(* Integers and their conversion to and from text *)

DigitChars == <<"0", "1", "2", "3", "4", "5", "6", "7", "8", "9">>

DigitOf(c) == CHOOSE d \in 0..9 : DigitChars[d + 1] = c

IsDigitChar(c) == \E d \in 0..9 : DigitChars[d + 1] = c

RECURSIVE StripZeros(_)
StripZeros(ds) ==
    IF Len(ds) > 1 /\ Head(ds) = 0 THEN StripZeros(Tail(ds)) ELSE ds

(* str(n) for an int. *)
IntToStr(n) ==
    LET body == [k \in 1..Len(n[3]) |-> DigitChars[n[3][k] + 1]]
    IN  IF n[2] THEN <<"-">> \o body ELSE body

(* int(s) for a str of an optional sign and decimal digits; any other text *)
(* is a ValueError (blanks and underscores are outside the modelled texts). *)
StrToInt(s) ==
    LET signed == s # <<>> /\ Head(s) \in {"-", "+"}
        body == IF signed THEN Tail(s) ELSE s
        ds == StripZeros([k \in 1..Len(body) |-> DigitOf(body[k])])
    IN  IF body = <<>> \/ \E k \in 1..Len(body) : ~IsDigitChar(body[k])
        THEN Raise("ValueError")
        ELSE I(signed /\ Head(s) = "-" /\ ds # <<0>>, ds)

(* str(v) as str() and an f-string field give it, for None, str and int. *)
Format(v) ==
    CASE IsStr(v) -> v[2]
      [] IsInt(v) -> IntToStr(v)
      [] IsNone(v) -> Lit_NoneRepr

(* The value of a sequence of digits that fits a machine integer. *)
RECURSIVE DigitsValue(_)
DigitsValue(ds) ==
    IF ds = <<>> THEN 0 ELSE 10 * DigitsValue(SubSeq(ds, 1, Len(ds) - 1)) + ds[Len(ds)]

(* Long division of a digit sequence by a small divisor: <<quotient digits, *)
(* remainder>>. *)
RECURSIVE LongDiv(_, _, _, _)
LongDiv(ds, divisor, quot, rem) ==
    IF ds = <<>> THEN <<StripZeros(IF quot = <<>> THEN <<0>> ELSE quot), rem>>
    ELSE LET cur == rem * 10 + Head(ds)
         IN  LongDiv(Tail(ds), divisor, Append(quot, cur \div divisor), cur % divisor)

(* a > b for digit sequences without leading zeros. *)
RECURSIVE DigitsGreater(_, _)
DigitsGreater(a, b) ==
    IF Len(a) # Len(b) THEN Len(a) > Len(b)
    ELSE IF a = <<>> THEN FALSE
    ELSE IF Head(a) # Head(b) THEN Head(a) > Head(b)
    ELSE DigitsGreater(Tail(a), Tail(b))

---------------------------------------------------------------------------
(* Text *)

Contains(s, c) == \E k \in 1..Len(s) : s[k] = c

(* s.split("\n"): the pieces of s between newlines, at least one. *)
RECURSIVE SplitLines(_)
SplitLines(s) ==
    IF ~Contains(s, NL) THEN <<s>>
    ELSE LET k == CHOOSE j \in 1..Len(s) : s[j] = NL /\ \A h \in 1..(j - 1) : s[h] # NL
         IN  <<SubSeq(s, 1, k - 1)>> \o SplitLines(SubSeq(s, k + 1, Len(s)))

(* "\n".join(parts) for parts that are all texts. *)
RECURSIVE JoinLines(_)
JoinLines(parts) ==
    IF parts = <<>> THEN <<>>
    ELSE IF Len(parts) = 1 THEN parts[1]
    ELSE parts[1] \o <<NL>> \o JoinLines(Tail(parts))

(* The elements a for loop or a comprehension draws from v: those of a   *)
(* list, the characters of a str; None and an int are not iterable.      *)
Iterate(v) ==
    CASE IsList(v) -> v
      [] IsStr(v) -> L([k \in 1..Len(v[2]) |-> S(<<v[2][k]>>)])
      [] IsNone(v) \/ IsInt(v) -> Raise("TypeError")

---------------------------------------------------------------------------
(* The date node: datetime.fromtimestamp(int(timestamp) / 1000, utc)     *)
(* and strftime("%Y-%m-%d")                                              *)

Pad2(n) == <<DigitChars[(n \div 10) + 1], DigitChars[(n % 10) + 1]>>

RECURSIVE NatToStr(_)
NatToStr(n) ==
    IF n < 10 THEN <<DigitChars[n + 1]>>
    ELSE NatToStr(n \div 10) \o <<DigitChars[(n % 10) + 1]>>

(* The proleptic Gregorian date of a day number counted from 1970-01-01, *)
(* printed by strftime: month and day on two digits, the year as the C   *)
(* library prints it (glibc: not padded).                                *)
DateOfDays(days) ==
    LET z == days + 719468
        era == z \div 146097
        doe == z - era * 146097
        yoe == (doe - (doe \div 1460) + (doe \div 36524) - (doe \div 146096)) \div 365
        doy == doe - (365 * yoe + (yoe \div 4) - (yoe \div 100))
        mp == (5 * doy + 2) \div 153
        d == doy - ((153 * mp + 2) \div 5) + 1
        m == IF mp < 10 THEN mp + 3 ELSE mp - 9
        y == yoe + era * 400 + (IF m <= 2 THEN 1 ELSE 0)
    IN  NatToStr(y) \o <<"-">> \o Pad2(m) \o <<"-">> \o Pad2(d)

(* int / 1000 is a float: an int beyond the largest float times 1000     *)
(* (1.797e311, compared on its leading digits) is an OverflowError.      *)
TrueDivOverflows(ds) ==
    \/ Len(ds) > 312
    \/ Len(ds) = 312 /\ DigitsGreater(SubSeq(ds, 1, 4), <<1, 7, 9, 7>>)

(* fromtimestamp: seconds beyond the platform time_t (64 bits) are an    *)
(* OverflowError.                                                        *)
TimeTOverflows(ds) ==
    LET secs == IF Len(ds) > 3 THEN SubSeq(ds, 1, Len(ds) - 3) ELSE <<0>>
    IN  DigitsGreater(secs, <<9, 2, 2, 3, 3, 7, 2, 0, 3, 6, 8, 5, 4, 7, 7, 5, 8, 0, 7>>)

(* The day number of a millisecond count, rounded down; a date outside   *)
(* the years 1..9999 is a ValueError (or an OSError, caught alike).       *)
FromTimestamp(n) ==
    LET qr == LongDiv(n[3], 86400000, <<>>, 0)
        q == DigitsValue(qr[1])
        days == IF ~n[2] THEN q ELSE IF qr[2] = 0 THEN 0 - q ELSE 0 - q - 1
    IN  IF TrueDivOverflows(n[3]) \/ TimeTOverflows(n[3]) THEN Raise("OverflowError")
        ELSE IF Len(qr[1]) > 7 THEN Raise("ValueError")
        ELSE IF days < 0 - 719162 \/ days > 2932896 THEN Raise("ValueError")
        ELSE S(DateOfDays(days))

(* int(timestamp) for an int or a str. *)
IntOf(v) ==
    CASE IsInt(v) -> v
      [] IsStr(v) -> StrToInt(v[2])

(* The try block of the date branch and its except clause, which catches *)
(* ValueError, OSError and TypeError and nothing else.                   *)
DateText(timestamp) ==
    LET n == IntOf(timestamp)
        r == IF IsRaise(n) THEN n ELSE FromTimestamp(n)
    IN  IF IsRaise(r) /\ r[2] \in {"ValueError", "OSError", "TypeError"}
        THEN S(Format(timestamp))
        ELSE r

---------------------------------------------------------------------------
(* Marks *)

(* any(m.get("type") == "code" for m in marks): stops at the first code  *)
(* mark, fails on an earlier element that is no dict.                    *)
RECURSIVE AnyCodeMark(_)
AnyCodeMark(ms) ==
    IF ms = <<>> THEN B(FALSE)
    ELSE IF ~IsDict(Head(ms)) THEN Raise("AttributeError")
    ELSE IF Get(Head(ms), "type", None) = S(Lit_code) THEN B(TRUE)
    ELSE AnyCodeMark(Tail(ms))

_has_code_mark(node) ==
    IF Get(node, "type", None) # S(Lit_text) THEN B(FALSE)
    ELSE LET marks == Iterate(Get(node, "marks", L(<<>>)))
         IN  IF IsRaise(marks) THEN marks ELSE AnyCodeMark(marks[2])

(* f"{left}{text}{right}" *)
Wrap(left, text, right) == S(left \o Format(text) \o right)

(* The code mark left out, as if the mark applier skipped it. *)
CodeWrapSkipped(text) == text

(* The code mark: f"`{text}`" *)
CodeWrap(text) == Wrap(<<BT>>, text, <<BT>>)

(* One turn of the loop of _apply_marks: the text after this mark. *)
ApplyMark(text, mark) ==
    IF ~IsDict(mark) THEN Raise("AttributeError")
    ELSE LET mark_type == Get(mark, "type", None)
             attrs == Get(mark, "attrs", D(<<>>))
         IN  CASE mark_type = S(Lit_code) -> CodeWrap(text)
               [] mark_type = S(Lit_strong) -> Wrap(<<"*", "*">>, text, <<"*", "*">>)
               [] mark_type = S(Lit_em) -> Wrap(<<"*">>, text, <<"*">>)
               [] mark_type = S(Lit_strike) -> Wrap(<<"~", "~">>, text, <<"~", "~">>)
               [] mark_type = S(Lit_underline) ->
                    Wrap(<<"<", "u", ">">>, text, <<"<", "/", "u", ">">>)
               [] mark_type = S(Lit_link) ->
                    LET href == Get(attrs, "href", S(<<>>))
                    IN  IF IsRaise(href) THEN href
                        ELSE IF Truthy(href)
                        THEN Wrap(<<"[">>, text, <<"]", "(">> \o Format(href) \o <<")">>)
                        ELSE text
               [] mark_type = S(Lit_subsup) ->
                    LET subsup_type == Get(attrs, "type", None)
                    IN  IF IsRaise(subsup_type) THEN subsup_type
                        ELSE IF subsup_type = S(Lit_sub)
                        THEN Wrap(<<"<", "s", "u", "b", ">">>, text,
                                  <<"<", "/", "s", "u", "b", ">">>)
                        ELSE IF subsup_type = S(Lit_sup)
                        THEN Wrap(<<"<", "s", "u", "p", ">">>, text,
                                  <<"<", "/", "s", "u", "p", ">">>)
                        ELSE text
               [] OTHER -> text

(* The marks applied from the last to the first. *)
RECURSIVE ApplyMarksLastFirst(_, _)
ApplyMarksLastFirst(text, ms) ==
    IF ms = <<>> \/ IsRaise(text) THEN text
    ELSE ApplyMarksLastFirst(ApplyMark(text, ms[Len(ms)]), SubSeq(ms, 1, Len(ms) - 1))

(* The loop of _apply_marks over the marks still to apply. *)
RECURSIVE ApplyMarksLoop(_, _)
ApplyMarksLoop(text, ms) ==
    IF ms = <<>> \/ IsRaise(text) THEN text
    ELSE ApplyMarksLoop(ApplyMark(text, Head(ms)), Tail(ms))

_apply_marks(text, marks) ==
    IF ~Truthy(marks) THEN text
    ELSE LET ms == Iterate(marks)
         IN  IF IsRaise(ms) THEN ms ELSE ApplyMarksLoop(text, ms[2])

(* [m for m in marks if m.get("type") != "code"]: every element is asked *)
(* its type.                                                             *)
RECURSIVE NonCodeMarks(_)
NonCodeMarks(ms) ==
    IF ms = <<>> THEN L(<<>>)
    ELSE IF ~IsDict(Head(ms)) THEN Raise("AttributeError")
    ELSE LET rest == NonCodeMarks(Tail(ms))
         IN  IF IsRaise(rest) THEN rest
             ELSE IF Get(Head(ms), "type", None) # S(Lit_code)
             THEN L(<<Head(ms)>> \o rest[2])
             ELSE rest

_get_text_without_code_mark(node) ==
    LET text == Get(node, "text", S(<<>>))
        marks == Iterate(Get(node, "marks", L(<<>>)))
        non_code_marks == IF IsRaise(marks) THEN marks ELSE NonCodeMarks(marks[2])
    IN  IF IsRaise(non_code_marks) THEN non_code_marks
        ELSE IF Truthy(non_code_marks) THEN _apply_marks(text, non_code_marks)
        ELSE text

---------------------------------------------------------------------------
(* The sibling merger and the dispatcher *)

(* The locals of _process_content_list: the parts (any values) and the   *)
(* buffered code lines (texts).                                          *)
Locals(parts, buffer) == <<"locals", parts, buffer>>
PartsOf(loc) == loc[2]
BufferOf(loc) == loc[3]

(* Every code unit an inline span of its first line. *)
CodeUnitInline(buffer) == S(<<BT>> \o buffer[1] \o <<BT>>)

(* A code unit: one line without a newline is an inline span, anything   *)
(* else a fenced block.                                                  *)
CodeUnit(buffer) ==
    IF Len(buffer) = 1 /\ ~Contains(buffer[1], NL)
    THEN S(<<BT>> \o buffer[1] \o <<BT>>)
    ELSE S(Fence \o <<NL>> \o JoinLines(buffer) \o <<NL>> \o Fence)

(* A flush that leaves the buffer as it is. *)
FlushWithoutClear(loc) ==
    IF BufferOf(loc) # <<>>
    THEN Locals(Append(PartsOf(loc), CodeUnit(BufferOf(loc))), BufferOf(loc))
    ELSE loc

flush_code_buffer(loc) ==
    IF BufferOf(loc) # <<>>
    THEN Locals(Append(PartsOf(loc), CodeUnit(BufferOf(loc))), <<>>)
    ELSE loc

(* Every conversion that is present kept, the empty text too. *)
KeepsPresent(text) == ~IsNone(text)

(* Whether the loop keeps the converted sibling: if text. *)
KeepsPart(text) == Truthy(text)

(* The lines put before the buffered ones. *)
ExtendFront(buffer, lines) == lines \o buffer

(* code_buffer.extend(lines) *)
Extend(buffer, lines) == buffer \o lines

(* The code branch of the loop: the text without its code mark, split    *)
(* into lines (only a str has split), joins the buffer.                  *)
AccumulateCode(loc, item) ==
    LET text == _get_text_without_code_mark(item)
    IN  IF IsRaise(text) THEN text
        ELSE IF ~IsStr(text) THEN Raise("AttributeError")
        ELSE Locals(PartsOf(loc), Extend(BufferOf(loc), SplitLines(text[2])))

(* The buffer flushed only before a sibling that is kept. *)
AppendConvertedLazyFlush(loc, text) ==
    IF IsRaise(text) THEN text
    ELSE IF KeepsPart(text)
    THEN Locals(Append(PartsOf(flush_code_buffer(loc)), text), <<>>)
    ELSE loc

(* The other branch, given the conversion of the sibling. *)
AppendConverted(loc, text) ==
    LET flushed == flush_code_buffer(loc)
    IN  IF IsRaise(text) THEN text
        ELSE IF KeepsPart(text)
        THEN Locals(Append(PartsOf(flushed), text), BufferOf(flushed))
        ELSE flushed

(* The condition of the loop: isinstance(item, dict) and _has_code_mark. *)
IsCodeItem(item) == IF IsDict(item) THEN _has_code_mark(item) ELSE B(FALSE)

(* The join made of no parts too. *)
FinishListJoinAlways(loc) ==
    LET parts == PartsOf(flush_code_buffer(loc))
    IN  IF \E k \in 1..Len(parts) : ~IsStr(parts[k]) THEN Raise("TypeError")
        ELSE S(JoinLines([k \in 1..Len(parts) |-> parts[k][2]]))

(* After the loop: the last flush and the join, which takes only texts.  *)
FinishList(loc) ==
    LET parts == PartsOf(flush_code_buffer(loc))
    IN  IF parts = <<>> THEN None
        ELSE IF \E k \in 1..Len(parts) : ~IsStr(parts[k]) THEN Raise("TypeError")
        ELSE S(JoinLines([k \in 1..Len(parts) |-> parts[k][2]]))

(* x or y *)
Or(x, y) == IF IsRaise(x) THEN x ELSE IF Truthy(x) THEN x ELSE y

RECURSIVE adf_to_text(_), LoopFrom(_, _, _)

(* Only a content that is a list passed through. *)
FallbackListOnly(node) ==
    LET content == Get(node, "content", None)
    IN  IF IsList(content) /\ Truthy(content) THEN adf_to_text(content) ELSE None

(* The last lines of the dict branch: a node of no known type is its     *)
(* content, when it has any.                                             *)
Fallback(node) ==
    LET content == Get(node, "content", None)
    IN  IF Truthy(content) THEN adf_to_text(content) ELSE None

(* One turn of the loop of _process_content_list. *)
LoopStep(loc, item) ==
    LET code == IsCodeItem(item)
    IN  IF IsRaise(code) THEN code
        ELSE IF code[2] THEN AccumulateCode(loc, item)
        ELSE AppendConverted(loc, adf_to_text(item))

(* The loop from item k on. *)
LoopFrom(loc, items, k) ==
    IF IsRaise(loc) \/ k > Len(items) THEN loc
    ELSE LoopFrom(LoopStep(loc, items[k]), items, k + 1)

_process_content_list(items) ==
    IF items = <<>> THEN None
    ELSE LET loc == LoopFrom(Locals(<<>>, <<>>), items, 1)
         IN  IF IsRaise(loc) THEN loc ELSE FinishList(loc)

(* The branches of adf_to_text on the type of a dict. *)
NodeText(node) ==
    LET type == Get(node, "type", None)
        attrs == Get(node, "attrs", D(<<>>))
    IN  CASE type = S(Lit_text) ->
               LET text == Get(node, "text", S(<<>>))
                   marks == Get(node, "marks", L(<<>>))
               IN  IF Truthy(marks) THEN _apply_marks(text, marks) ELSE text
          [] type = S(Lit_hardBreak) -> S(<<NL>>)
          [] type = S(Lit_mention) ->
               LET id == Get(attrs, "id", S(Lit_unknown))
               IN  Or(Get(attrs, "text", None),
                      IF IsRaise(id) THEN id ELSE Wrap(<<"@">>, id, <<>>))
          [] type = S(Lit_emoji) ->
               Or(Get(attrs, "text", None), Get(attrs, "shortName", S(<<>>)))
          [] type = S(Lit_date) ->
               LET timestamp == Get(attrs, "timestamp", None)
               IN  IF IsRaise(timestamp) THEN timestamp
                   ELSE IF Truthy(timestamp) THEN DateText(timestamp)
                   ELSE S(<<>>)
          [] type = S(Lit_status) ->
               LET text == Get(attrs, "text", S(<<>>))
               IN  IF IsRaise(text) THEN text ELSE Wrap(<<"[">>, text, <<"]">>)
          [] type = S(Lit_inlineCard) ->
               LET url == Get(attrs, "url", None)
                   data == Get(attrs, "data", D(<<>>))
               IN  IF IsRaise(url) THEN url
                   ELSE IF Truthy(url) THEN url
                   ELSE Or(Get(data, "url", None), Get(data, "name", S(<<>>)))
          [] type = S(Lit_codeBlock) ->
               LET code_text == Or(adf_to_text(Get(node, "content", L(<<>>))), S(<<>>))
               IN  IF IsRaise(code_text) THEN code_text
                   ELSE Wrap(Fence \o <<NL>>, code_text, <<NL>> \o Fence)
          [] OTHER -> Fallback(node)

adf_to_text(v) ==
    CASE IsNone(v) -> None
      [] IsStr(v) -> v
      [] IsList(v) -> _process_content_list(v[2])
      [] IsDict(v) -> NodeText(v)
      [] OTHER -> None

---------------------------------------------------------------------------
(* The arguments the calls are made with *)

MaxLen == 3
MaxMarks == 2
MaxDepth == 2
MaxCalls == 2

TextNode(t, ms) == D([type |-> S(Lit_text), text |-> S(t), marks |-> L(ms)])
PlainText(t) == D([type |-> S(Lit_text), text |-> S(t)])
Mark(type) == D([type |-> S(type)])
MarkWith(type, attrs) == D([type |-> S(type), attrs |-> D(attrs)])
Node(type) == D([type |-> S(type)])
NodeWith(type, attrs) == D([type |-> S(type), attrs |-> attrs])
Block(type, content) == D([type |-> S(type), content |-> content])
CodeMark == Mark(Lit_code)
Code(t) == TextNode(t, <<CodeMark>>)

Lit_paragraph == <<"p", "a", "r", "a", "g", "r", "a", "p", "h">>
Lit_textColor == <<"t", "e", "x", "t", "C", "o", "l", "o", "r">>
Ta == <<"a">>
Tb == <<"b">>
Tab == <<"a", NL, "b">>
Tx == <<" ", "x", " ">>
Href == <<"u">>

(* Sequences over a set, by length. *)
RECURSIVE SeqsOfLen(_, _)
SeqsOfLen(set, n) ==
    IF n = 0 THEN {<<>>}
    ELSE {Append(q, x) : q \in SeqsOfLen(set, n - 1), x \in set}

SeqsUpTo(set, n) == UNION {SeqsOfLen(set, k) : k \in 0..n}

(* The marks of well-formed documents: every kind the mark applier knows, *)
(* the ones it leaves the text alone for, and one it does not know.       *)
NoOpMarks ==
    { Mark(Lit_link), MarkWith(Lit_link, [href |-> S(<<>>)]),
      MarkWith(Lit_subsup, [type |-> S(Lit_em)]), Mark(Lit_textColor) }

Marks ==
    { CodeMark, Mark(Lit_strong), Mark(Lit_em), Mark(Lit_strike), Mark(Lit_underline),
      MarkWith(Lit_link, [href |-> S(Href)]),
      MarkWith(Lit_subsup, [type |-> S(Lit_sub)]),
      MarkWith(Lit_subsup, [type |-> S(Lit_sup)]) } \cup NoOpMarks

TextNodes == {TextNode(t, ms) : t \in {Ta, Tab}, ms \in SeqsUpTo(Marks, MaxMarks)}

(* Siblings: code-marked texts (one with a newline, one with another     *)
(* mark, one empty), plain texts, and siblings that give no text.        *)
CodeSiblings ==
    { Code(Ta), Code(Tb), Code(Tab), Code(<<>>),
      TextNode(Ta, <<Mark(Lit_strong), CodeMark>>) }

OtherSiblings ==
    { PlainText(Tx), PlainText(<<>>), None, Node(Lit_paragraph), Node(Lit_emoji),
      Block(Lit_paragraph, L(<<Code(Tb)>>)) }

Siblings == CodeSiblings \cup OtherSiblings

SiblingLists == {L(xs) : xs \in SeqsUpTo(Siblings, MaxLen)}



Num(ds) == I(FALSE, ds)
Digits(t) == [k \in 1..Len(t) |-> DigitChars[t[k] + 1]]

(* Items that are no mapping: a number, texts, lists. *)
NonMappings == {Num(<<5>>), S(<<>>), S(Ta), L(<<>>), L(<<Code(Tb)>>)}

(* Two code-marked texts with an item that is no mapping between them. *)
Separated ==
    {L(<<c1, s, c2>>) : c1 \in {Code(Ta), Code(Tab)}, c2 \in {Code(Tb), Code(Tab)},
                        s \in NonMappings}

(* Millisecond counts: the epoch, the day before it, the instant of the  *)
(* tests (2020-02-19), a leap day, the first and the last day the date   *)
(* type holds, the first one it does not, one beyond time_t, and one     *)
(* beyond the floats.                                                    *)
Millis ==
    { <<0>>, <<1>>, <<1, 5, 8, 2, 1, 5, 2, 5, 5, 9, 0, 0, 0>>,
      <<9, 5, 1, 7, 8, 2, 4, 0, 0, 0, 0, 0>>,
      <<2, 5, 3, 4, 0, 2, 3, 0, 0, 7, 9, 9, 9, 9, 9>>,
      <<2, 5, 3, 4, 0, 2, 3, 0, 0, 8, 0, 0, 0, 0, 0>>,
      <<6, 2, 1, 3, 5, 5, 9, 6, 8, 0, 0, 0, 0, 0>> }

BeyondTimeT == <<1>> \o [k \in 1..22 |-> 0]
BeyondFloat == <<2>> \o [k \in 1..311 |-> 0]
NotANumber == <<"n", "o", "t", "-", "a", "-", "n", "u", "m", "b", "e", "r">>

Timestamps ==
    ({I(neg, ds) : neg \in BOOLEAN, ds \in Millis} \ {I(TRUE, <<0>>)})
    \cup {S(Digits(ds)) : ds \in Millis}
    \cup {S(<<"-">> \o Digits(ds)) : ds \in Millis}
    \cup {S(NotANumber), S(<<>>), S(<<"1", ".", "5">>), None}

DateNodes ==
    {NodeWith(Lit_date, D([timestamp |-> t])) : t \in Timestamps}
    \cup {Node(Lit_date), NodeWith(Lit_date, D(<<>>))}

(* The other inline nodes, with and without each attribute they read. *)
InlineNodes ==
    { Node(Lit_hardBreak), Node(Lit_mention), Node(Lit_emoji), Node(Lit_status),
      Node(Lit_inlineCard), Node(Lit_codeBlock),
      NodeWith(Lit_mention, D([id |-> S(Ta), text |-> S(Tb)])),
      NodeWith(Lit_mention, D([id |-> S(Ta)])),
      NodeWith(Lit_mention, D([id |-> S(Ta), text |-> S(<<>>)])),
      NodeWith(Lit_emoji, D([shortName |-> S(Ta), text |-> S(Tb)])),
      NodeWith(Lit_emoji, D([shortName |-> S(Ta)])),
      NodeWith(Lit_status, D([text |-> S(Ta)])),
      NodeWith(Lit_status, D([text |-> S(<<>>)])),
      NodeWith(Lit_inlineCard, D([url |-> S(Href)])),
      NodeWith(Lit_inlineCard, D([data |-> D([url |-> S(Href)])])),
      NodeWith(Lit_inlineCard, D([data |-> D([name |-> S(Ta)])])),
      NodeWith(Lit_inlineCard, D(<<>>)),
      Block(Lit_codeBlock, L(<<>>)),
      Block(Lit_codeBlock, L(<<PlainText(Tab)>>)),
      Block(Lit_codeBlock, L(<<PlainText(Ta), PlainText(Tb)>>)) }

Scalars == {None, S(<<>>), S(Ta), S(Tab), Num(<<0>>), Num(<<5>>)}

(* Nodes of no known type, and mappings without a type, around content:  *)
(* lists, nodes, texts, numbers, nothing; nested up to MaxDepth.          *)
Contents ==
    Scalars \cup
    { L(<<>>), L(<<PlainText(Ta)>>), L(<<PlainText(<<>>)>>), L(<<Code(Ta), Code(Tb)>>),
      L(<<PlainText(Ta), Code(Tab), None>>), D(<<>>), PlainText(Ta), Code(Tab),
      Node(Lit_hardBreak), Node(Lit_paragraph),
      Block(Lit_codeBlock, L(<<PlainText(Ta)>>)) }

Wrappers(inner) ==
    {Block(Lit_paragraph, c) : c \in inner} \cup {D([content |-> c]) : c \in inner}
    \cup {D([type |-> None, content |-> c]) : c \in inner}

RECURSIVE Wrapped(_)
Wrapped(depth) ==
    IF depth = 0 THEN Contents ELSE Wrappers(Wrapped(depth - 1)) \cup Wrapped(depth - 1)

UnknownNodes ==
    (Wrapped(MaxDepth) \ Contents)
    \cup {Node(Lit_paragraph), D(<<>>), D([type |-> None]), D([type |-> Num(<<5>>)])}

(* Documents that break the shapes of the format: attrs that is no       *)
(* mapping, a mark that is no mapping, marks that is no list, a text     *)
(* that is no string, a timestamp out of every range.                    *)
Malformed ==
    { NodeWith(Lit_mention, None), NodeWith(Lit_emoji, None), NodeWith(Lit_date, None),
      NodeWith(Lit_status, None), NodeWith(Lit_inlineCard, None),
      NodeWith(Lit_inlineCard, D([data |-> None])),
      NodeWith(Lit_mention, S(Ta)),
      TextNode(Ta, <<S(Ta)>>), TextNode(Ta, <<CodeMark, S(Ta)>>),
      TextNode(Ta, <<D([type |-> S(Lit_link), attrs |-> None])>>),
      D([type |-> S(Lit_text), text |-> S(Ta), marks |-> None]),
      D([type |-> S(Lit_text), text |-> S(Ta), marks |-> Num(<<5>>)]),
      D([type |-> S(Lit_text), text |-> S(Ta), marks |-> S(Ta)]),
      D([type |-> S(Lit_text), text |-> None, marks |-> L(<<CodeMark>>)]),
      D([type |-> S(Lit_text), text |-> Num(<<5>>), marks |-> L(<<CodeMark>>)]),
      L(<<D([type |-> S(Lit_text), text |-> Num(<<5>>), marks |-> L(<<CodeMark>>)])>>),
      L(<<D([type |-> S(Lit_text), text |-> None, marks |-> L(<<CodeMark>>)])>>),
      L(<<D([type |-> S(Lit_text), text |-> Num(<<5>>)])>>),
      L(<<Code(Ta), TextNode(Ta, <<S(Ta), CodeMark>>)>>),
      L(<<Code(Ta), TextNode(Ta, <<CodeMark, S(Ta)>>)>>),
      L(<<PlainText(Ta), D([type |-> S(Lit_text), marks |-> Num(<<5>>)])>>),
      L(<<PlainText(Ta), NodeWith(Lit_status, None), Code(Tb)>>),
      NodeWith(Lit_date, D([timestamp |-> Num(BeyondTimeT)])),
      NodeWith(Lit_date, D([timestamp |-> I(TRUE, BeyondTimeT)])),
      NodeWith(Lit_date, D([timestamp |-> Num(BeyondFloat)])),
      NodeWith(Lit_date, D([timestamp |-> S(Digits(BeyondTimeT))])) }

Inputs ==
    Scalars \cup TextNodes \cup SiblingLists \cup Separated \cup DateNodes
    \cup InlineNodes \cup UnknownNodes \cup Malformed

(* The arguments of the runs of several calls. *)
CallInputs ==
    { None, S(Ta), Code(Tab), L(<<Code(Ta), Code(Tb)>>),
      L(<<PlainText(Tx), Code(Ta)>>), L(<<Code(Ta), PlainText(<<>>), Code(Tb)>>),
      Block(Lit_paragraph, L(<<PlainText(Ta), Code(Tb)>>)),
      L(<<>>), L(<<Code(Ta), NodeWith(Lit_status, None)>>),
      L(<<TextNode(Ta, <<S(Ta)>>)>>) }

---------------------------------------------------------------------------
(* The calls: adf_to_text(adf_content), a list taken one sibling a step  *)

(* The list of the call before, kept. *)
KeptList(old) == old

(* A new empty list: result_parts = [] and code_buffer = []. *)
NewList(old) == <<>>

TypeOK ==
    /\ pc \in {"call", "loop", "return"}
    /\ idx \in 0..(MaxLen + 1)

Start(inputs) ==
    /\ adf_content \in inputs
    /\ given = adf_content
    /\ pc = "call"
    /\ idx = 0
    /\ result_parts = <<>>
    /\ code_buffer = <<>>
    /\ ret = None
    /\ history = <<>>

Init == Start(Inputs)

InitCalls == Start(CallInputs)

Return(value) ==
    /\ pc' = "return"
    /\ ret' = value

(* None, a str, and anything that is no list and no dict. *)
ConvertScalar ==
    /\ pc = "call"
    /\ ~IsList(adf_content) /\ ~IsDict(adf_content)
    /\ Return(adf_to_text(adf_content))
    /\ UNCHANGED <<adf_content, given, idx, result_parts, code_buffer, history>>

(* A dict: the branch of its type. *)
ConvertNode ==
    /\ pc = "call"
    /\ IsDict(adf_content)
    /\ Return(adf_to_text(adf_content))
    /\ UNCHANGED <<adf_content, given, idx, result_parts, code_buffer, history>>

(* A list that is empty. *)
EmptyList ==
    /\ pc = "call"
    /\ IsList(adf_content) /\ adf_content[2] = <<>>
    /\ Return(None)
    /\ UNCHANGED <<adf_content, given, idx, result_parts, code_buffer, history>>

(* A list with items: _process_content_list starts its loop. *)
EnterList ==
    /\ pc = "call"
    /\ IsList(adf_content) /\ adf_content[2] # <<>>
    /\ pc' = "loop"
    /\ idx' = 1
    /\ result_parts' = NewList(result_parts)
    /\ code_buffer' = NewList(code_buffer)
    /\ UNCHANGED <<adf_content, given, ret, history>>

(* The locals after a turn of the loop, or the exception leaving it     *)
(* with the locals as they were when it was raised.                      *)
Continue(loc, raised) ==
    IF IsRaise(loc)
    THEN /\ Return(loc)
         /\ result_parts' = PartsOf(raised)
         /\ code_buffer' = BufferOf(raised)
         /\ UNCHANGED idx
    ELSE /\ result_parts' = PartsOf(loc)
         /\ code_buffer' = BufferOf(loc)
         /\ idx' = idx + 1
         /\ UNCHANGED <<pc, ret>>

(* A turn of the loop on a code-marked text. *)
LoopCode ==
    /\ pc = "loop"
    /\ idx <= Len(adf_content[2])
    /\ IsCodeItem(adf_content[2][idx]) = B(TRUE)
    /\ Continue(AccumulateCode(Locals(result_parts, code_buffer), adf_content[2][idx]),
                Locals(result_parts, code_buffer))
    /\ UNCHANGED <<adf_content, given, history>>

(* A turn of the loop on any other sibling. *)
LoopOther ==
    /\ pc = "loop"
    /\ idx <= Len(adf_content[2])
    /\ IsCodeItem(adf_content[2][idx]) = B(FALSE)
    /\ Continue(AppendConverted(Locals(result_parts, code_buffer),
                                adf_to_text(adf_content[2][idx])),
                flush_code_buffer(Locals(result_parts, code_buffer)))
    /\ UNCHANGED <<adf_content, given, history>>

(* A turn of the loop whose test for a code mark fails. *)
LoopTestRaises ==
    /\ pc = "loop"
    /\ idx <= Len(adf_content[2])
    /\ IsRaise(IsCodeItem(adf_content[2][idx]))
    /\ Continue(IsCodeItem(adf_content[2][idx]), Locals(result_parts, code_buffer))
    /\ UNCHANGED <<adf_content, given, history>>

(* The end of the loop: the last flush, the join, the return. *)
FinishLoop ==
    /\ pc = "loop"
    /\ idx > Len(adf_content[2])
    /\ LET flushed == flush_code_buffer(Locals(result_parts, code_buffer))
       IN  /\ result_parts' = PartsOf(flushed)
           /\ code_buffer' = BufferOf(flushed)
           /\ Return(FinishList(Locals(result_parts, code_buffer)))
    /\ UNCHANGED <<adf_content, given, idx, history>>

(* The caller calls again, with any argument. *)
NextCall ==
    /\ pc = "return"
    /\ Len(history) < MaxCalls
    /\ history' = Append(history, <<given, ret>>)
    /\ adf_content' \in CallInputs
    /\ given' = adf_content'
    /\ pc' = "call"
    /\ UNCHANGED <<idx, result_parts, code_buffer, ret>>

Call ==
    \/ ConvertScalar
    \/ ConvertNode
    \/ EmptyList
    \/ EnterList
    \/ LoopCode
    \/ LoopOther
    \/ LoopTestRaises
    \/ FinishLoop

Next == Call

NextCalls == Call \/ NextCall

Spec == Init /\ [][Next]_vars

SpecCalls == InitCalls /\ [][NextCalls]_vars

---------------------------------------------------------------------------
(* What the claims speak of *)

Returned == pc = "return"

InlineSpan(t) == S(<<BT>> \o t \o <<BT>>)
FencedBlock(body) == S(Fence \o <<NL>> \o body \o <<NL>> \o Fence)

IsCodeSibling(item) == IsCodeItem(item) = B(TRUE)

MarksOf(node) == node[2]["marks"][2]
TextOf(node) == node[2]["text"][2]
WithoutCode(ms) == SelectSeq(ms, LAMBDA m : m # CodeMark)

(* The text of a code-marked sibling with its other marks applied. *)
MarkedText(node) == _apply_marks(S(TextOf(node)), L(WithoutCode(MarksOf(node))))[2]

(* The last sibling of the run of code-marked texts that k is in. *)
RECURSIVE RunEnd(_, _)
RunEnd(items, k) ==
    IF k < Len(items) /\ IsCodeSibling(items[k + 1]) THEN RunEnd(items, k + 1) ELSE k

(* The lines of the texts of siblings k..j. *)
RECURSIVE RunLines(_, _, _)
RunLines(items, k, j) ==
    IF k > j THEN <<>>
    ELSE SplitLines(MarkedText(items[k])) \o RunLines(items, k + 1, j)

RunUnit(lines) ==
    IF Len(lines) = 1 THEN InlineSpan(lines[1]) ELSE FencedBlock(JoinLines(lines))

(* A sibling renders when its conversion is a text that is not empty. *)
Renders(item) == IsStr(adf_to_text(item)) /\ adf_to_text(item)[2] # <<>>

(* One unit for each run of code-marked texts and for each other sibling *)
(* that renders, from sibling k on.                                      *)
RECURSIVE Units(_, _)
Units(items, k) ==
    IF k > Len(items) THEN <<>>
    ELSE IF IsCodeSibling(items[k])
    THEN <<RunUnit(RunLines(items, k, RunEnd(items, k)))[2]>>
         \o Units(items, RunEnd(items, k) + 1)
    ELSE IF Renders(items[k]) THEN <<adf_to_text(items[k])[2]>> \o Units(items, k + 1)
    ELSE Units(items, k + 1)

(* C1: for a sequence of siblings the result is the newline-join, in     *)
(* sibling order, of one unit per maximal run of consecutive code-marked *)
(* texts (an inline span for one line, a fenced block otherwise) and one *)
(* unit per other sibling that renders; runs apart are never merged. A   *)
(* sequence without any unit gives absent.                               *)
C1_UnitsJoined ==
    (Returned /\ adf_content \in SiblingLists) =>
        LET units == Units(adf_content[2], 1)
        IN  ret = IF units = <<>> THEN None ELSE S(JoinLines(units))

C1_Witness ==
    /\ Returned
    /\ adf_content = L(<<Code(Ta), Code(Tb), PlainText(Tx)>>)
    /\ ret = S(Fence \o <<NL, "a", NL, "b", NL>> \o Fence \o <<NL>> \o Tx)

CodeTexts == {Ta, Tb, Tab, <<>>}

(* C2 as stated: a text T whose only mark is code gives the inline span  *)
(* when T has no newline and the fenced block of the lines of T when it  *)
(* has, passed directly and as the only element of a sequence alike.     *)
C2_DirectOrAlone ==
    Returned =>
        \A t \in CodeTexts :
            adf_content \in {Code(t), L(<<Code(t)>>)} =>
                ret = IF Contains(t, NL) THEN FencedBlock(t) ELSE InlineSpan(t)

(* C2 amended: as the only element of a sequence the node gives the      *)
(* inline span when T has no newline and the fenced block of the lines   *)
(* of T when it has; passed directly it gives T between two backquotes   *)
(* whether or not T has newlines.                                        *)
C2_AloneFencedDirectInline ==
    Returned =>
        \A t \in CodeTexts :
            /\ adf_content = L(<<Code(t)>>) =>
                   ret = IF Contains(t, NL) THEN FencedBlock(t) ELSE InlineSpan(t)
            /\ adf_content = Code(t) => ret = InlineSpan(t)

C2_Witness ==
    /\ Returned
    /\ adf_content = Code(Tab)
    /\ ret = InlineSpan(Tab)

(* Sequences of code-marked texts without a newline. *)
IsCodeRun(v) ==
    /\ IsList(v) /\ v[2] # <<>>
    /\ \A k \in 1..Len(v[2]) :
           v[2][k] \in CodeSiblings /\ ~Contains(TextOf(v[2][k]), NL)

CountOf(s, c) == Cardinality({k \in 1..Len(s) : s[k] = c})

(* C4 as stated: the mark applier skips the code mark, so applying a     *)
(* list of marks equals applying the list with its code marks removed.   *)
C4_CodeSkipped ==
    (Returned /\ adf_content \in TextNodes) =>
        /\ ret = _apply_marks(S(TextOf(adf_content)), L(WithoutCode(MarksOf(adf_content))))
        /\ _apply_marks(S(TextOf(adf_content)), L(MarksOf(adf_content)))
               = _apply_marks(S(TextOf(adf_content)), L(WithoutCode(MarksOf(adf_content))))

(* C4 amended: the mark applier does not skip the code mark: each code   *)
(* mark of a text converted directly puts one pair of backquotes around  *)
(* the text accumulated so far. Code marks are left out only on the path *)
(* of the sibling merger, whose buffered lines carry no backquote.       *)
C4_CodeWrapsOutsideMerger ==
    /\ (Returned /\ adf_content \in TextNodes) =>
           /\ IsStr(ret)
           /\ CountOf(ret[2], BT) = 2 * CountOf(MarksOf(adf_content), CodeMark)
           /\ MarksOf(adf_content) = <<CodeMark>> => ret = InlineSpan(TextOf(adf_content))
    /\ adf_content \in SiblingLists =>
           \A k \in 1..Len(code_buffer) : ~Contains(code_buffer[k], BT)

C4_Witness ==
    /\ Returned
    /\ adf_content = TextNode(Ta, <<CodeMark, Mark(Lit_strong)>>)
    /\ ret = S(<<"*", "*", BT, "a", BT, "*", "*">>)

(* The runs of code-marked texts of a sequence, counted. *)
RunsCount(items) ==
    Cardinality({k \in 1..Len(items) :
                     IsCodeSibling(items[k]) /\ (k = 1 \/ ~IsCodeSibling(items[k - 1]))})

(* The other siblings whose conversion is present, the empty text too. *)
PresentCount(items) ==
    Cardinality({k \in 1..Len(items) :
                     ~IsCodeSibling(items[k]) /\ ~IsNone(adf_to_text(items[k]))})

(* The other siblings whose conversion is a text that is not empty. *)
NonEmptyCount(items) ==
    Cardinality({k \in 1..Len(items) : ~IsCodeSibling(items[k]) /\ Renders(items[k])})

(* C5 as stated: every other sibling whose conversion is present, the    *)
(* empty text included, adds one part, and the merger returns absent     *)
(* only when no part was produced: one empty text gives the empty text.  *)
C5_PresentAddsPart ==
    (Returned /\ adf_content \in SiblingLists) =>
        /\ Len(result_parts) = RunsCount(adf_content[2]) + PresentCount(adf_content[2])
        /\ ret = None <=> result_parts = <<>>

(* C5 amended: every other sibling whose conversion is a text that is    *)
(* not empty adds one part; one whose conversion is absent or the empty  *)
(* text adds none; the merger returns absent exactly when no part was    *)
(* produced, so one empty text, or one emoji without attrs, gives absent. *)
C5_NonEmptyAddsPart ==
    (Returned /\ adf_content \in SiblingLists) =>
        /\ Len(result_parts) = RunsCount(adf_content[2]) + NonEmptyCount(adf_content[2])
        /\ ret = None <=> result_parts = <<>>
        /\ adf_content \in {L(<<PlainText(<<>>)>>), L(<<Node(Lit_emoji)>>)} => ret = None

C5_Witness ==
    /\ Returned
    /\ adf_content = L(<<PlainText(<<>>)>>)
    /\ result_parts = <<>>
    /\ ret = None


(* C6: adf_to_text never raises: whatever the argument, malformed fields *)
(* included, the call returns a string or absent.                        *)
C6_NeverRaises == Returned => (IsNone(ret) \/ IsStr(ret))

(* The timestamp of a date node; absent when attrs or the key is missing *)
(* or the value is null.                                                 *)
TimestampOf(node) ==
    IF "attrs" \in DOMAIN node[2]
    THEN Get(node[2]["attrs"], "timestamp", None)
    ELSE None

(* The timestamp is an integer, or a text of decimal digits, and counts  *)
(* the milliseconds of an instant that has a calendar date.              *)
ParsesAsMillis(ts) ==
    /\ IsInt(ts) \/ IsStr(ts)
    /\ ~IsRaise(IntOf(ts))
    /\ ~IsRaise(FromTimestamp(IntOf(ts)))

(* C7: a date node gives the UTC calendar date of the instant whenever   *)
(* the timestamp parses as a count of milliseconds (an integer or a      *)
(* decimal text, 0 included), the raw timestamp as text whenever it is   *)
(* present and does not parse, and the empty text only when absent.      *)
C7_DateOfEveryTimestamp ==
    (Returned /\ adf_content \in DateNodes) =>
        LET ts == TimestampOf(adf_content)
        IN  /\ ParsesAsMillis(ts) => ret = FromTimestamp(IntOf(ts))
            /\ (~IsNone(ts) /\ ~ParsesAsMillis(ts)) => ret = S(Format(ts))
            /\ (ret = S(<<>>) /\ ts # S(<<>>)) => IsNone(ts)

(* C8: marks compose by successive wrapping in list order: applying      *)
(* m1 \o m2 is applying m2 to the result of applying m1, so the first    *)
(* mark is innermost and the last outermost; an unknown mark, a link     *)
(* without href and a subsup that is neither sub nor sup change nothing. *)
C8_MarksCompose ==
    (Returned /\ adf_content \in TextNodes) =>
        LET text == S(TextOf(adf_content))
            ms == MarksOf(adf_content)
        IN  /\ \A k \in 0..Len(ms) :
                   _apply_marks(_apply_marks(text, L(SubSeq(ms, 1, k))),
                                L(SubSeq(ms, k + 1, Len(ms)))) = ret
            /\ \A m \in NoOpMarks :
                   /\ _apply_marks(ret, L(<<m>>)) = ret
                   /\ _apply_marks(text, L(Append(ms, m))) = ret
            /\ ms = <<Mark(Lit_strike), Mark(Lit_em)>> =>
                   ret = S(<<"*", "~", "~">> \o text[2] \o <<"~", "~", "*">>)

C8_Witness ==
    /\ Returned
    /\ adf_content = TextNode(Ta, <<Mark(Lit_strike), Mark(Lit_em)>>)
    /\ ret = S(<<"*", "~", "~", "a", "~", "~", "*">>)

KnownTypes ==
    { S(Lit_text), S(Lit_hardBreak), S(Lit_mention), S(Lit_emoji), S(Lit_date),
      S(Lit_status), S(Lit_inlineCard), S(Lit_codeBlock) }

IsUnknownNode(v) == IsDict(v) /\ Get(v, "type", None) \notin KnownTypes

(* C9: a mapping whose type is none of the eight known ones, or that has *)
(* no type, converts to what its content converts to when the content is *)
(* present and not empty, at any depth, and to absent otherwise.         *)
C9_UnknownPassesThrough ==
    (Returned /\ IsUnknownNode(adf_content)) =>
        LET content == Get(adf_content, "content", None)
        IN  IF Truthy(content) THEN ret = adf_to_text(content) ELSE ret = None

C9_Witness ==
    /\ Returned
    /\ adf_content = Block(Lit_paragraph, D([content |-> L(<<Code(Ta), Code(Tb)>>)]))
    /\ ret = FencedBlock(<<"a", NL, "b">>)

C11_NeverEmptyText ==
    IsList(adf_content) =>
        /\ \A k \in 1..Len(result_parts) : Truthy(result_parts[k])
        /\ Returned =>
               /\ ret # S(<<>>)
               /\ ~IsRaise(ret) => (IsNone(ret) \/ (IsStr(ret) /\ ret[2] # <<>>))
               /\ result_parts = <<>> => (IsNone(ret) \/ IsRaise(ret))

C11_Witness ==
    /\ Returned
    /\ adf_content = L(<<Code(<<>>), PlainText(<<>>)>>)
    /\ result_parts = <<S(<<BT, BT>>)>>
    /\ ret = S(<<BT, BT>>)

(* The unit a code-marked text gives when its run is that text alone. *)
UnitOf(node) == RunUnit(SplitLines(MarkedText(node)))

(* A sibling that is no code-marked text and gives no part: its         *)
(* conversion is absent or the empty text.                               *)
GivesNoPart(item) == ~IsCodeSibling(item) /\ adf_to_text(item) \in {None, S(<<>>)}

(* The loop is about to take a sibling that is no code-marked text. *)
AtOtherSibling ==
    /\ pc = "loop"
    /\ IsList(adf_content) /\ idx \in 1..Len(adf_content[2])
    /\ IsCodeItem(adf_content[2][idx]) = B(FALSE)

(* The parts once the pending buffer is flushed. *)
PartsFlushed ==
    IF code_buffer = <<>> THEN result_parts ELSE Append(result_parts, RunUnit(code_buffer))

(* A turn on a sibling that is no code-marked text leaves the buffer     *)
(* empty and the parts beginning with the flushed ones, the unit of the  *)
(* buffer before anything the sibling gives.                             *)
FlushesFirst ==
    AtOtherSibling =>
        /\ code_buffer' = <<>>
        /\ Len(result_parts') >= Len(PartsFlushed)
        /\ SubSeq(result_parts', 1, Len(PartsFlushed)) = PartsFlushed
        /\ GivesNoPart(adf_content[2][idx]) => result_parts' = PartsFlushed

(* The buffer is empty after a sibling that is no code-marked text and   *)
(* when the merger returns; two code-marked texts around a sibling that  *)
(* gives no part are two parts, never the one unit of their lines.       *)
BufferEmptyUnitsApart ==
    (adf_content \in SiblingLists \cup Separated /\ adf_content[2] # <<>>) =>
        LET items == adf_content[2]
        IN  /\ (pc = "loop" /\ idx > 1 /\ ~IsCodeSibling(items[idx - 1])) => code_buffer = <<>>
            /\ Returned => code_buffer = <<>>
            /\ ( /\ Returned /\ Len(items) = 3
                 /\ IsCodeSibling(items[1]) /\ IsCodeSibling(items[3])
                 /\ GivesNoPart(items[2]) ) =>
                    /\ result_parts = <<UnitOf(items[1]), UnitOf(items[3])>>
                    /\ ret = S(UnitOf(items[1])[2] \o <<NL>> \o UnitOf(items[3])[2])
                    /\ ret # RunUnit(RunLines(items, 1, 1) \o RunLines(items, 3, 3))

(* C12: the merger flushes the pending code buffer before every sibling  *)
(* that is no code-marked text, whether or not that sibling gives a      *)
(* part: two code-marked texts around a sibling that gives none (an      *)
(* unknown node without content, a null, an item that is no mapping, an  *)
(* empty text) are two code units, and the buffer is empty whenever such *)
(* a sibling is converted and when the merger returns.                   *)
C12_FlushedBeforeOthers == []BufferEmptyUnitsApart /\ [][FlushesFirst]_vars

C12_Witness ==
    /\ Returned
    /\ adf_content = L(<<Code(Ta), Num(<<5>>), Code(Tb)>>)
    /\ result_parts = <<InlineSpan(Ta), InlineSpan(Tb)>>
    /\ code_buffer = <<>>
    /\ ret = S(<<BT, "a", BT, NL, BT, "b", BT>>)

=============================================================================
